---- MODULE Spec2Model ----
(***************************************************************************)
(* PortfolioRebalancer of src/app.py: the constructor copies the holdings  *)
(* table, initialize_data renames its columns and left-merges it onto the  *)
(* target-weight table, calculate_metrics adds '% Atual', 'Gap', 'Aporte'. *)
(*                                                                         *)
(* Numbers are exact rationals [n, d] with d > 0.  The three values a      *)
(* float division by zero produces are the records with d = 0.             *)
(* Objects live in a heap (object name -> value); the fields of self and   *)
(* the caller's variables hold object names, so aliasing is visible.       *)
(* Column names are written without accents.                               *)
(***************************************************************************)
EXTENDS Integers, Sequences, FiniteSets, TLC

VARIABLES heap, self, pc, exc

vars == <<heap, self, pc, exc>>

----------------------------------------------------------------------------
(* Bounds of the explored inputs *)

\* weights are multiples of 1/WDen
WDen == 2
\* rows of the holdings table
MaxHoldings == 2
\* largest market value of one holdings row
MaxValor == 2
\* largest contribution (the smallest is -1)
MaxAporte == 1

----------------------------------------------------------------------------
(* Rationals *)

RECURSIVE GCD(_, _)
GCD(a, b) == IF b = 0 THEN a ELSE GCD(b, a % b)

Abs(x) == IF x < 0 THEN -x ELSE x

Sign(x) == IF x > 0 THEN 1 ELSE IF x < 0 THEN -1 ELSE 0

\* n/d with d >= 0, in lowest terms; d = 0 gives nan (n = 0) or +-inf
Rat(n, d) ==
    IF d = 0 THEN [n |-> Sign(n), d |-> 0]
    ELSE LET g == GCD(Abs(n), d) IN [n |-> n \div g, d |-> d \div g]

Int2Rat(i) == [n |-> i, d |-> 1]
Zero == Int2Rat(0)
One == Int2Rat(1)
NaN == [n |-> 0, d |-> 0]

IsNaN(x) == x.d = 0 /\ x.n = 0

\* float arithmetic without rounding: nan and +-inf propagate as in IEEE 754
RAdd(x, y) == Rat(x.n * y.d + y.n * x.d, x.d * y.d)
RSub(x, y) == Rat(x.n * y.d - y.n * x.d, x.d * y.d)
RMul(x, y) == Rat(x.n * y.n, x.d * y.d)
\* x / y: a zero divisor gives nan or +-inf, no exception
FDiv(x, y) ==
    IF IsNaN(x) \/ IsNaN(y) THEN NaN
    ELSE IF y.n = 0 THEN Rat(x.n, 0)
    ELSE Rat(Sign(y.n) * x.n * y.d, x.d * Abs(y.n))
\* comparisons with nan are false
RGt(x, y) == ~IsNaN(x) /\ ~IsNaN(y) /\ x.n * y.d > y.n * x.d
RGe(x, y) == ~IsNaN(x) /\ ~IsNaN(y) /\ x.n * y.d >= y.n * x.d

RECURSIVE RSum(_)
RSum(s) == IF s = <<>> THEN Zero ELSE RAdd(Head(s), RSum(Tail(s)))

\* Series.sum(): nan entries are skipped
ColSum(s) == RSum(SelectSeq(s, LAMBDA x : ~IsNaN(x)))

----------------------------------------------------------------------------
(* Data frames: [columns: sequence of names, rows: sequence of functions   *)
(* from the column names to values]                                        *)

Range(s) == {s[i] : i \in DOMAIN s}

Column(f, c) == [i \in DOMAIN f.rows |-> f.rows[i][c]]

RECURSIVE Flatten(_)
Flatten(ss) == IF ss = <<>> THEN <<>> ELSE Head(ss) \o Flatten(Tail(ss))

\* frame[c] = vals : replaces the column, or appends it when new
SetColumn(f, c, vals) ==
    [columns |-> IF c \in Range(f.columns) THEN f.columns ELSE Append(f.columns, c),
     rows |-> [i \in DOMAIN f.rows |->
                 [k \in Range(f.columns) \cup {c} |->
                     IF k = c THEN vals[i] ELSE f.rows[i][k]]]]

rename_map ==
    [k \in {"ATIVO", "PATRIMONIO ATUAL", "RENTABILIDADE", "RESULTADO",
            "PRECO MEDIO", "PRECO ATUAL", "QUANTIDADE"} |->
        CASE k = "ATIVO" -> "Subcategoria"
          [] k = "PATRIMONIO ATUAL" -> "Patrimonio Atual"
          [] k = "RENTABILIDADE" -> "Rentabilidade"
          [] k = "RESULTADO" -> "Resultado"
          [] k = "PRECO MEDIO" -> "Preco Medio"
          [] k = "PRECO ATUAL" -> "Preco Atual"
          [] k = "QUANTIDADE" -> "Quantidade"]

NewName(c) == IF c \in DOMAIN rename_map THEN rename_map[c] ELSE c

\* df.rename(columns = the entries of rename_map whose key is a column)
Rename(f) ==
    [columns |-> [i \in DOMAIN f.columns |-> NewName(f.columns[i])],
     rows |-> [i \in DOMAIN f.rows |->
                 [k \in {NewName(c) : c \in Range(f.columns)} |->
                     f.rows[i][CHOOSE c \in Range(f.columns) : NewName(c) = k]]]]

Categorias ==
    <<"Renda Fixa", "Renda Fixa", "Acoes", "Acoes", "Acoes", "Acoes",
      "Exterior", "Exterior">>

\* pd.DataFrame of three lists: they must have one length
BaseOk(p) == Len(p) = Len(Categorias)

Base(p) ==
    [columns |-> <<"Categoria", "Subcategoria", "% Alvo Subcat">>,
     rows |-> [i \in DOMAIN p |->
                 [k \in {"Categoria", "Subcategoria", "% Alvo Subcat"} |->
                     CASE k = "Categoria" -> Categorias[i]
                       [] k = "Subcategoria" -> p[i].k
                       [] k = "% Alvo Subcat" -> p[i].v]]]

\* the merge with how = 'outer': the right rows no left row matches are appended
MergeOuter(left, right, key) ==
    LET rcols == SelectSeq(right.columns, LAMBDA c : c # key)
        allc == Range(left.columns) \cup Range(rcols)
        Joined(l, r) == [c \in allc |-> IF c \in Range(left.columns) THEN l[c] ELSE r[c]]
        Alone(l) == [c \in allc |-> IF c \in Range(left.columns) THEN l[c] ELSE NaN]
        Extra(r) == [c \in allc |->
                        IF c \in Range(rcols) \cup {key} THEN r[c]
                        ELSE IF c = "Categoria" THEN "nan" ELSE NaN]
        RowsOf(l) ==
            LET m == SelectSeq(right.rows, LAMBDA r : r[key] = l[key])
            IN IF m = <<>> THEN <<Alone(l)>>
               ELSE [j \in DOMAIN m |-> Joined(l, m[j])]
        unmatched == SelectSeq(right.rows,
                               LAMBDA r : \A i \in DOMAIN left.rows : left.rows[i][key] # r[key])
    IN [columns |-> left.columns \o rcols,
        rows |-> Flatten([i \in DOMAIN left.rows |-> RowsOf(left.rows[i])])
                    \o [j \in DOMAIN unmatched |-> Extra(unmatched[j])]]

\* left.merge(right, on = key, how = 'left'): the left rows in their order,
\* each once per matching right row (in the right order), or once with NaN
\* in the right columns when no right row matches
MergeLeft(left, right, key) ==
    LET rcols == SelectSeq(right.columns, LAMBDA c : c # key)
        allc == Range(left.columns) \cup Range(rcols)
        Joined(l, r) == [c \in allc |-> IF c \in Range(left.columns) THEN l[c] ELSE r[c]]
        Alone(l) == [c \in allc |-> IF c \in Range(left.columns) THEN l[c] ELSE NaN]
        RowsOf(l) ==
            LET m == SelectSeq(right.rows, LAMBDA r : r[key] = l[key])
            IN IF m = <<>> THEN <<Alone(l)>>
               ELSE [j \in DOMAIN m |-> Joined(l, m[j])]
    IN [columns |-> left.columns \o rcols,
        rows |-> Flatten([i \in DOMAIN left.rows |-> RowsOf(left.rows[i])])]

\* the column left as merged, its nan not replaced
FillNaNone(vals, x) == vals

\* Series.fillna(x)
FillNa(vals, x) == [i \in DOMAIN vals |-> IF IsNaN(vals[i]) THEN x ELSE vals[i]]

\* lines 39-40
DataOf(p, raw) ==
    LET m == MergeLeft(Base(p), raw, "Subcategoria")
    IN SetColumn(m, "Patrimonio Atual", FillNa(Column(m, "Patrimonio Atual"), Zero))

----------------------------------------------------------------------------
(* calculate_metrics, step by step *)

Total(d) == ColSum(Column(d, "Patrimonio Atual"))

Share(d) ==
    LET total == Total(d)
    IN [i \in DOMAIN d.rows |-> FDiv(d.rows[i]["Patrimonio Atual"], total)]

\* the gap to the target value of the present total, the contribution left out
GapSemAporte(d, aporte) ==
    LET total == Total(d)
    IN [i \in DOMAIN d.rows |->
          RSub(RMul(total, d.rows[i]["% Alvo Subcat"]), d.rows[i]["Patrimonio Atual"])]

Gap(d, aporte) ==
    LET total == Total(d)
    IN [i \in DOMAIN d.rows |->
          RSub(RMul(RAdd(total, aporte), d.rows[i]["% Alvo Subcat"]),
               d.rows[i]["Patrimonio Atual"])]

Positivos(gaps) == SelectSeq(gaps, LAMBDA g : RGt(g, Zero))

\* every row gets Gap / soma * aporte, also the rows at or over target
AporteSemFiltro(gaps, aporte) ==
    LET positivos == Positivos(gaps)
        soma == ColSum(positivos)
    IN IF positivos # <<>>
       THEN [i \in DOMAIN gaps |-> RMul(FDiv(gaps[i], soma), aporte)]
       ELSE [i \in DOMAIN gaps |-> Zero]

\* the contribution split evenly over the rows under target
AporteIgual(gaps, aporte) ==
    LET positivos == Positivos(gaps)
    IN [i \in DOMAIN gaps |->
          IF RGt(gaps[i], Zero)
          THEN FDiv(aporte, Int2Rat(Len(positivos)))
          ELSE Zero]

\* soma taken over all the gaps, not over the positive ones
AporteSomaTodos(gaps, aporte) ==
    LET positivos == Positivos(gaps)
        soma == ColSum(gaps)
    IN IF positivos # <<>>
       THEN [i \in DOMAIN gaps |->
               IF RGt(gaps[i], Zero)
               THEN RMul(FDiv(gaps[i], soma), aporte)
               ELSE Zero]
       ELSE [i \in DOMAIN gaps |-> Zero]

Aporte(gaps, aporte) ==
    LET positivos == Positivos(gaps)
        soma == ColSum(positivos)
    IN IF positivos # <<>>
       THEN [i \in DOMAIN gaps |->
               IF RGt(gaps[i], Zero)
               THEN RMul(FDiv(gaps[i], soma), aporte)
               ELSE Zero]
       ELSE [i \in DOMAIN gaps |-> Zero]

Metrics(d, aporte) ==
    LET g == Gap(d, aporte)
    IN SetColumn(SetColumn(SetColumn(d, "% Atual", Share(d)), "Gap", g),
                 "Aporte", Aporte(g, aporte))

----------------------------------------------------------------------------
(* Inputs *)

\* the keys of the target map, in the order of the configuration
Ativos ==
    <<"B5P211", "IB5M11", "DIVO11", "charles-river-fia",
      "guepardo-institucional-fic-fia", "real-investor-fia-bdr-nivel-i",
      "IVVB11", "WRLD11">>

\* the default weights of the page: 0.30, 0.10, 0.075 (four times), 0.15, 0.15
PesosPadrao ==
    <<Rat(30, 100), Rat(10, 100), Rat(75, 1000), Rat(75, 1000),
      Rat(75, 1000), Rat(75, 1000), Rat(15, 100), Rat(15, 100)>>

\* sizes of the target map: empty, one entry, one too few, one per category
TargetSizes == {0, 1, Len(Categorias) - 1, Len(Categorias)}

PesosOf(weights) == [i \in DOMAIN weights |-> [k |-> Ativos[i], v |-> weights[i]]]

\* sequences of n weight units, each 0..WDen, with at most `budget` in all
RECURSIVE UnitSeqs(_, _)
UnitSeqs(n, budget) ==
    IF n = 0 THEN {<<>>}
    ELSE UNION {{Append(s, u) : s \in UnitSeqs(n - 1, budget - u)} :
                    u \in 0..(IF budget < WDen THEN budget ELSE WDen)}

\* target maps whose weights are multiples of 1/WDen summing to at most 1 + 1/WDen
PesosInputs ==
    UNION {{PesosOf([i \in 1..n |-> Rat(u[i], WDen)]) : u \in UnitSeqs(n, WDen + 1)} :
              n \in TargetSizes}

\* the first entries of the default target map
PesosPadraoInputs == {PesosOf(SubSeq(PesosPadrao, 1, n)) : n \in TargetSizes}

\* ids of holdings rows: two targets and one asset that is no target
HeldIds == {"B5P211", "IB5M11", "XPTO11"}

\* market values; nan is an empty cell of the sheet
Valores == {NaN} \cup {Int2Rat(v) : v \in 0..MaxValor}

\* the sheet's own column names
SheetHeader == <<"ATIVO", "PATRIMONIO ATUAL">>

\* a table arrives with the sheet's names or with the names they are renamed to
Headers == {SheetHeader, <<"Subcategoria", "Patrimonio Atual">>}

SeqsUpTo(S, n) == UNION {[1..m -> S] : m \in 0..n}

DfOf(h, r) ==
    [columns |-> h,
     rows |-> [i \in DOMAIN r |->
                 [c \in Range(h) |-> IF c = h[1] THEN r[i][1] ELSE r[i][2]]]]

DfInputs == {DfOf(h, r) : h \in Headers, r \in SeqsUpTo(HeldIds \X Valores, MaxHoldings)}

DfSmallInputs == {DfOf(SheetHeader, r) : r \in SeqsUpTo(HeldIds \X Valores, 1)}

AporteInputs == {Int2Rat(a) : a \in (-1)..MaxAporte}

\* every holdings table with the default weights, and every weight vector
\* with the holdings tables of at most one row under the sheet's names
Inputs ==
    (DfInputs \X PesosPadraoInputs \X AporteInputs)
        \cup (DfSmallInputs \X PesosInputs \X AporteInputs)

----------------------------------------------------------------------------
(* The program *)

Init ==
    /\ \E in \in Inputs :
          /\ heap = [o \in {"df", "pesos"} |-> IF o = "df" THEN in[1] ELSE in[2]]
          /\ self = [aporte_mensal |-> in[3], pesos |-> "None",
                     raw_df |-> "None", data |-> "None"]
    /\ pc = "new"
    /\ exc = "None"

\* __init__ without the copy: raw_df is the caller's table, renamed in place
ConstructInPlace ==
    /\ pc = "new"
    /\ heap' = [heap EXCEPT !["df"] = Rename(@)] @@ ("raw_df" :> Rename(heap["df"]))
    /\ self' = [self EXCEPT !.pesos = "pesos", !.raw_df = "raw_df"]
    /\ pc' = "initialize_data"
    /\ UNCHANGED exc

\* lines 9-11: self.pesos is the caller's map, self.raw_df a copy of its table
Construct ==
    /\ pc = "new"
    /\ heap' = heap @@ ("raw_df" :> heap["df"])
    /\ self' = [self EXCEPT !.pesos = "pesos", !.raw_df = "raw_df"]
    /\ pc' = "initialize_data"
    /\ UNCHANGED exc

\* lines 15-40; rename returns a new table, so does merge
InitializeData ==
    /\ pc = "initialize_data"
    /\ LET renamed == Rename(heap[self.raw_df])
           p == heap[self.pesos]
       IN IF ~BaseOk(p)
          THEN /\ heap' = ("renamed" :> renamed) @@ heap
               /\ self' = [self EXCEPT !.raw_df = "renamed"]
               /\ pc' = "error"
               /\ exc' = "ValueError"
          ELSE IF ~({"Subcategoria", "Patrimonio Atual"} \subseteq Range(renamed.columns))
          THEN /\ heap' = ("renamed" :> renamed) @@ heap
               /\ self' = [self EXCEPT !.raw_df = "renamed"]
               /\ pc' = "error"
               /\ exc' = "KeyError"
          ELSE /\ heap' = ("data" :> DataOf(p, renamed)) @@ ("renamed" :> renamed) @@ heap
               /\ self' = [self EXCEPT !.raw_df = "renamed", !.data = "data"]
               /\ pc' = "calculate_metrics"
               /\ UNCHANGED exc

\* lines 42-56: the three columns are set on self.data in place
CalculateMetrics ==
    /\ pc = "calculate_metrics"
    /\ heap' = [heap EXCEPT ![self.data] = Metrics(@, self.aporte_mensal)]
    /\ pc' = "done"
    /\ UNCHANGED <<self, exc>>

Next == Construct \/ InitializeData \/ CalculateMetrics

Spec == Init /\ [][Next]_vars

----------------------------------------------------------------------------
(* What the properties read from a state *)

Df == heap["df"]
Pesos == heap["pesos"]
Data == heap[self.data]

Keys(p) == [i \in DOMAIN p |-> p[i].k]

\* the asset of each row of the caller's table (its first column)
DfIds == Column(Df, Df.columns[1])
DfValores == Column(Df, Df.columns[2])

IsTarget(id) == \E i \in DOMAIN Pesos : Pesos[i].k = id

ValueOf(i) == IF IsNaN(DfValores[i]) THEN Zero ELSE DfValores[i]

\* the market value of the caller's rows that name a target
RECURSIVE HeldFrom(_)
HeldFrom(i) ==
    IF i > Len(Df.rows) THEN Zero
    ELSE RAdd(IF IsTarget(DfIds[i]) THEN ValueOf(i) ELSE Zero, HeldFrom(i + 1))

HeldTotal == HeldFrom(1)

WeightsSumToOne == RSum([i \in DOMAIN Pesos |-> Pesos[i].v]) = One

GapCol == Column(Data, "Gap")
AporteCol == Column(Data, "Aporte")
ShareCol == Column(Data, "% Atual")

SomeGapPositive == \E i \in DOMAIN GapCol : GapCol[i].n > 0

RemoveRow(f, i) ==
    [f EXCEPT !.rows = SubSeq(@, 1, i - 1) \o SubSeq(@, i + 1, Len(@))]

----------------------------------------------------------------------------
(* Properties *)

\* C1: with a contribution >= 0 (market values are >= 0 in every input), when
\* some row has Gap > 0 the Aporte column sums exactly to aporte_mensal
C1_AporteSumsToContribution ==
    (pc = "done" /\ self.aporte_mensal.n >= 0 /\ SomeGapPositive)
        => RSum(AporteCol) = self.aporte_mensal

\* a positive contribution split over two rows under target, one row over target
C1_Witness ==
    /\ pc = "done"
    /\ self.aporte_mensal.n > 0
    /\ \E i, j \in DOMAIN GapCol : i # j /\ AporteCol[i].n > 0 /\ AporteCol[j].n > 0
    /\ \E i \in DOMAIN GapCol : GapCol[i].n < 0

\* C2: the '% Atual' column sums to 1 when the total market value is > 0 and
\* is 0 in every row when the total is 0
C2_SharesDefined ==
    pc = "done" =>
        IF HeldTotal.n > 0
        THEN RSum(ShareCol) = One
        ELSE \A i \in DOMAIN ShareCol : ShareCol[i] = Zero

\* C3: for a non-empty target map, once initialize_data has run there is a
\* table whose 'Subcategoria' column is the keys of the map, in their order
C3_OneRowPerTarget ==
    (Len(Pesos) > 0 /\ pc \in {"calculate_metrics", "done", "error"})
        => (pc # "error" /\ Column(Data, "Subcategoria") = Keys(Pesos))

\* C4: with an empty target map the construction ends in a ConfigurationError
\* and no table is built
C4_EmptyTargetsConfigurationError ==
    (Len(Pesos) = 0 /\ pc \in {"calculate_metrics", "done", "error"})
        => (pc = "error" /\ exc = "ConfigurationError" /\ self.data = "None")

\* C5: a target that no holdings row names has one row, with market value 0
\* and Gap = (total + aporte_mensal) * weight, which is at least the gap it
\* would have with a positive market value under the same total
C5_MissingHoldingDefault ==
    pc = "done" =>
        \A i \in DOMAIN Pesos :
            Pesos[i].k \notin Range(DfIds) =>
                LET rows == SelectSeq(Data.rows, LAMBDA r : r["Subcategoria"] = Pesos[i].k)
                    alvo == RMul(RAdd(HeldTotal, self.aporte_mensal), Pesos[i].v)
                IN /\ Len(rows) = 1
                   /\ rows[1]["Patrimonio Atual"] = Zero
                   /\ rows[1]["Gap"] = alvo
                   /\ \A v \in 1..MaxValor : RGe(rows[1]["Gap"], RSub(alvo, Int2Rat(v)))

\* a held portfolio and a target of positive weight that is not held
C5_Witness ==
    /\ pc = "done"
    /\ HeldTotal.n > 0
    /\ \E i \in DOMAIN Pesos : Pesos[i].k \notin Range(DfIds) /\ Pesos[i].v.n > 0

\* C6: a holdings row whose asset is no target gives no row of the table, and
\* the table is the one the same inputs give without that row
C6_NonTargetRowDropped ==
    pc = "done" =>
        \A i \in DOMAIN Df.rows :
            ~IsTarget(DfIds[i]) =>
                /\ \A j \in DOMAIN Data.rows : Data.rows[j]["Subcategoria"] # DfIds[i]
                /\ Data = Metrics(DataOf(Pesos, Rename(RemoveRow(Df, i))), self.aporte_mensal)

\* a table built from a row of a target and a row, of positive value, of no target
C6_Witness ==
    /\ pc = "done"
    /\ \E i, j \in DOMAIN Df.rows :
          /\ ~IsTarget(DfIds[i]) /\ ValueOf(i).n > 0
          /\ IsTarget(DfIds[j]) /\ ValueOf(j).n > 0

\* C7: no step changes the caller's holdings table or the caller's target map
C7_InputsUnchanged ==
    [][heap'["df"] = heap["df"] /\ heap'["pesos"] = heap["pesos"]]_vars

\* the metrics are computed from a table whose columns had to be renamed
C7_Witness ==
    /\ pc = "done"
    /\ Len(Df.rows) > 0
    /\ heap[self.raw_df].columns # Df.columns
    /\ self.pesos = "pesos"

\* C8: with denom the sum of the gaps > 0, a row with Gap > 0 has
\* Aporte = Gap / denom * aporte_mensal, and every other row has Aporte = 0
C8_DistributionRule ==
    pc = "done" =>
        LET denom == RSum(SelectSeq(GapCol, LAMBDA x : x.n > 0))
        IN \A i \in DOMAIN GapCol :
              IF GapCol[i].n > 0
              THEN RMul(AporteCol[i], denom) = RMul(GapCol[i], self.aporte_mensal)
              ELSE AporteCol[i] = Zero

\* rows under target with different gaps, a row over target, a contribution # 0
C8_Witness ==
    /\ pc = "done"
    /\ self.aporte_mensal.n # 0
    /\ \E i, j \in DOMAIN GapCol :
          GapCol[i].n > 0 /\ GapCol[j].n > 0 /\ GapCol[i] # GapCol[j]
    /\ \E i \in DOMAIN GapCol : GapCol[i].n < 0

\* C9: with weights summing to 1, no row has Gap > 0 only when aporte_mensal
\* is <= 0, and with aporte_mensal = 0 only when every Gap is 0
C9_UnallocatedOnlyWithoutContribution ==
    (pc = "done" /\ WeightsSumToOne /\ ~SomeGapPositive)
        => /\ self.aporte_mensal.n <= 0
           /\ self.aporte_mensal.n = 0 => \A i \in DOMAIN GapCol : GapCol[i] = Zero

\* holdings exactly at target and no contribution: nothing is allocated
C9_Witness ==
    /\ pc = "done"
    /\ WeightsSumToOne
    /\ HeldTotal.n > 0
    /\ self.aporte_mensal.n = 0
    /\ ~SomeGapPositive

\* C10: with weights summing to 1 and aporte_mensal >= 0, every row has
\* 0 <= Aporte <= aporte_mensal, and Aporte <= Gap when Gap > 0
C10_AporteWithinGap ==
    (pc = "done" /\ WeightsSumToOne /\ self.aporte_mensal.n >= 0)
        => \A i \in DOMAIN GapCol :
              /\ RGe(AporteCol[i], Zero)
              /\ RGe(self.aporte_mensal, AporteCol[i])
              /\ GapCol[i].n > 0 => RGe(GapCol[i], AporteCol[i])

\* a row that gets a positive amount smaller than its gap
C10_Witness ==
    /\ pc = "done"
    /\ WeightsSumToOne
    /\ self.aporte_mensal.n > 0
    /\ \E i \in DOMAIN GapCol :
          AporteCol[i].n > 0 /\ RGt(GapCol[i], AporteCol[i])

====
